---- MODULE Spec2Model ----
(***************************************************************************)
(* The YAML-subset codec and the frontmatter codec of api/content.js       *)
(* (parseYAML, toYAML, parseFrontmatter, toMarkdown).                      *)
(*                                                                         *)
(* A JavaScript string is a sequence of one-character strings, so that     *)
(* trim, split, slice, search and replace are computed as the code         *)
(* computes them.  A JavaScript object is an ordered mapping: a sequence   *)
(* of [k, v] entries with unique keys, in insertion order.                 *)
(***************************************************************************)
EXTENDS Integers, Sequences, FiniteSets, TLC

\* ------------------------------------------------------------------ bounds

\* The longest input of parseYAML, in lines.
MaxLines == 4

\* The most entries of a mapping given to toYAML.
MaxEntries == 2

\* The longest input of parseFrontmatter, in lines.
MaxDocLines == 5

\* The longest value of a one-line `key: value` input, in characters.
MaxValueLen == 3

\* The most lines that follow a `key: |` line inside its block.
MaxBlockLines == 3

\* The most lines that follow the first `- key: value` line of a list.
MaxFieldLines == 3

\* The seconds the clock can be off the start, the hour and the week.
MaxSkew == 1

\* The most tokens createJWT returns in a run.
MaxTokens == 2

\* The number of clients that edit the site.
MaxClients == 2

\* ------------------------------------------------------------- JS strings

Whitespace == {" ", "\n"}

Quotes == {"\"", "'"}

\* String.prototype.search(/\S/): the 0-based index of the first
\* non-whitespace character, -1 when there is none.
SearchNonSpace(s) ==
    IF \A i \in 1..Len(s) : s[i] \in Whitespace
    THEN -1
    ELSE (CHOOSE i \in 1..Len(s) :
            /\ s[i] \notin Whitespace
            /\ \A j \in 1..(i - 1) : s[j] \in Whitespace) - 1

\* String.prototype.trim
Trim(s) ==
    IF \A i \in 1..Len(s) : s[i] \in Whitespace
    THEN << >>
    ELSE LET first == CHOOSE i \in 1..Len(s) :
                        /\ s[i] \notin Whitespace
                        /\ \A j \in 1..(i - 1) : s[j] \in Whitespace
             last  == CHOOSE i \in 1..Len(s) :
                        /\ s[i] \notin Whitespace
                        /\ \A j \in (i + 1)..Len(s) : s[j] \in Whitespace
         IN  SubSeq(s, first, last)

\* String.prototype.startsWith / endsWith
StartsWith(s, p) == Len(s) >= Len(p) /\ SubSeq(s, 1, Len(p)) = p

EndsWith(s, p) == Len(s) >= Len(p) /\ SubSeq(s, Len(s) - Len(p) + 1, Len(s)) = p

\* String.prototype.includes, for a one-character needle
Includes(s, c) == \E i \in 1..Len(s) : s[i] = c

\* String.prototype.indexOf, for a one-character needle: 0-based, -1 if absent
IndexOf(s, c) ==
    IF Includes(s, c)
    THEN (CHOOSE i \in 1..Len(s) : s[i] = c /\ \A j \in 1..(i - 1) : s[j] # c) - 1
    ELSE -1

\* s.slice(n), 0-based start
SliceFrom(s, n) == SubSeq(s, n + 1, Len(s))

\* s.slice(0, n), 0-based exclusive end
SliceTo(s, n) == SubSeq(s, 1, n)

\* s.replace(/^["']|["']$/g, ''): one quote character is removed at the start if
\* there is one, and one at the end of what is left if there is one; the two
\* alternatives match independently of each other.
StripQuotes(s) ==
    LET a == IF Len(s) > 0 /\ s[1] \in Quotes THEN Tail(s) ELSE s
    IN  IF Len(a) > 0 /\ a[Len(a)] \in Quotes THEN SubSeq(a, 1, Len(a) - 1) ELSE a

\* s.replace(':', ''): the first ':' only
RemoveFirstColon(s) ==
    IF Includes(s, ":")
    THEN SliceTo(s, IndexOf(s, ":")) \o SliceFrom(s, IndexOf(s, ":") + 1)
    ELSE s

\* text.split('\n'): at least one element, the empty string for empty text
RECURSIVE SplitLines(_)
SplitLines(text) ==
    IF Includes(text, "\n")
    THEN <<SliceTo(text, IndexOf(text, "\n"))>>
            \o SplitLines(SliceFrom(text, IndexOf(text, "\n") + 1))
    ELSE <<text>>

\* lines.join('\n')
RECURSIVE JoinLines(_)
JoinLines(ls) ==
    IF Len(ls) = 0 THEN << >>
    ELSE IF Len(ls) = 1 THEN ls[1]
    ELSE ls[1] \o <<"\n">> \o JoinLines(Tail(ls))

\* ------------------------------------------------------------- JS objects

\* null, as opposed to a value v held as [v |-> v]
NULL == [null |-> TRUE]

Some(x) == [v |-> x]

HasKey(m, k) == \E i \in 1..Len(m) : m[i].k = k

\* obj[k] = v: an existing key keeps its place, a new key is added last
Put(m, k, v) ==
    IF HasKey(m, k)
    THEN [i \in 1..Len(m) |-> IF m[i].k = k THEN [k |-> k, v |-> v] ELSE m[i]]
    ELSE Append(m, [k |-> k, v |-> v])

\* obj[k], for a key that is present
Get(m, k) == m[CHOOSE i \in 1..Len(m) : m[i].k = k].v

\* Object.keys(obj)
Keys(m) == [i \in 1..Len(m) |-> m[i].k]

\* The values of the tree: a string, a list, a nested mapping, null.  An element
\* of a list is a record (an object with string fields), a string or null.
Str(s) == [t |-> "str", s |-> s]

List(l) == [t |-> "list", l |-> l]

Map(m) == [t |-> "map", m |-> m]

Rec(f) == [t |-> "rec", f |-> f]

Null == [t |-> "null"]

\* ---------------------------------------------------------------- parseYAML

\* The locals of parseYAML before its loop.
ParserInit ==
    [ result            |-> << >>,
      currentKey        |-> NULL,
      currentList       |-> NULL,
      currentListItem   |-> NULL,
      inMultilineString |-> FALSE,
      multilineKey      |-> NULL,
      multilineContent  |-> << >>,
      indentLevel       |-> 0,
      threw             |-> FALSE ]

\* `if (!trimmed || trimmed.startsWith('#'))`
IsSkipLine(line) == IF Trim(line) = << >> THEN TRUE ELSE Trim(line)[1] = "#"

\* A blank or comment line; inside a block scalar a blank line adds a newline.
SkipLine(st, line) ==
    IF st.inMultilineString /\ Trim(line) = << >>
    THEN [st EXCEPT !.multilineContent = @ \o <<"\n">>]
    ELSE st

\* `if (inMultilineString)` with `currentIndent > indentLevel`
IsBlockLine(st, line) ==
    /\ ~IsSkipLine(line)
    /\ st.inMultilineString
    /\ SearchNonSpace(line) > st.indentLevel

\* The line appended as it is, not trimmed.
BlockLineUntrimmed(st, line) ==
    [st EXCEPT !.multilineContent =
        @ \o (IF @ # << >> THEN <<"\n">> ELSE << >>) \o line]

\* A line of an open block scalar: trimmed and appended, joined by a newline
\* when the accumulator is not empty.
BlockLine(st, line) ==
    [st EXCEPT !.multilineContent =
        @ \o (IF @ # << >> THEN <<"\n">> ELSE << >>) \o Trim(line)]

\* The else branch of `if (inMultilineString)`: a line at or below the reference
\* indentation stores the block under its key, and the line is then processed.
CloseBlock(st) ==
    IF st.inMultilineString
    THEN [st EXCEPT !.result = Put(@, st.multilineKey.v, Str(Trim(st.multilineContent))),
                    !.inMultilineString = FALSE]
    ELSE st

\* `if (trimmed.endsWith('|'))`
IsBlockOpen(st, line) ==
    /\ ~IsSkipLine(line)
    /\ ~IsBlockLine(st, line)
    /\ EndsWith(Trim(line), <<"|">>)

BlockOpen(st, line) ==
    [CloseBlock(st) EXCEPT
        !.multilineKey = Some(Trim(RemoveFirstColon(SliceTo(Trim(line), Len(Trim(line)) - 1)))),
        !.multilineContent = << >>,
        !.inMultilineString = TRUE,
        !.indentLevel = SearchNonSpace(line)]

\* `if (trimmed.startsWith('- '))`
IsListItem(st, line) ==
    /\ ~IsSkipLine(line)
    /\ ~IsBlockLine(st, line)
    /\ ~EndsWith(Trim(line), <<"|">>)
    /\ StartsWith(Trim(line), <<"-", " ">>)

\* `content`, the text of a list item after "- "
ItemContent(line) == SliceFrom(Trim(line), 2)

\* `const [key, ...valueParts] = s.split(':')` then `key.trim()`
FieldKey(s) == Trim(SliceTo(s, IndexOf(s, ":")))

\* `valueParts.join(':').trim().replace(/^["']|["']$/g, '')`
FieldValue(s) == StripQuotes(Trim(SliceFrom(s, IndexOf(s, ":") + 1)))

\* The branch `content.includes(':')` of a list item: the list and the record are
\* created when missing, and the field is set on the record that is open.
ListItemRecord(st, line) ==
    LET s    == CloseBlock(st)
        item == IF s.currentListItem = NULL THEN << >> ELSE s.currentListItem.v
    IN  [s EXCEPT
            !.currentList = IF @ = NULL THEN Some(<< >>) ELSE @,
            !.currentListItem =
                Some(Put(item, FieldKey(ItemContent(line)), FieldValue(ItemContent(line))))]

\* The content of a plain item pushed as a bare string.
ListItemPlainBare(st, line) ==
    LET s    == CloseBlock(st)
        list == IF s.currentList = NULL THEN << >> ELSE s.currentList.v
    IN  [s EXCEPT !.currentList = Some(Append(list, Str(StripQuotes(ItemContent(line)))))]

\* The else branch of a list item: a record that is open and has a field is
\* pushed first, then {text: content} is pushed.
ListItemPlain(st, line) ==
    LET s     == CloseBlock(st)
        list  == IF s.currentList = NULL THEN << >> ELSE s.currentList.v
        flush == s.currentListItem # NULL /\ Len(s.currentListItem.v) > 0
        entry == Rec(<<[k |-> <<"t", "e", "x", "t">>, v |-> StripQuotes(ItemContent(line))]>>)
    IN  [s EXCEPT
            !.currentList =
                Some((IF flush THEN Append(list, Rec(s.currentListItem.v)) ELSE list)
                        \o <<entry>>),
            !.currentListItem = IF flush THEN Some(<< >>) ELSE @]

\* The guard without its test of currentListItem.
IsRecordFieldUnguarded(st, line) ==
    /\ ~IsSkipLine(line)
    /\ ~IsBlockLine(st, line)
    /\ ~EndsWith(Trim(line), <<"|">>)
    /\ ~StartsWith(Trim(line), <<"-", " ">>)
    /\ SearchNonSpace(line) >= 4

\* `if (leadingSpaces >= 4 && currentListItem)`
IsRecordField(st, line) ==
    /\ ~IsSkipLine(line)
    /\ ~IsBlockLine(st, line)
    /\ ~EndsWith(Trim(line), <<"|">>)
    /\ ~StartsWith(Trim(line), <<"-", " ">>)
    /\ SearchNonSpace(line) >= 4
    /\ st.currentListItem # NULL

\* The line starting a new list element: the open record is pushed and a record
\* holding the field alone is opened.
RecordFieldAsItem(st, line) ==
    LET s == CloseBlock(st)
    IN  IF Includes(Trim(line), ":") /\ s.currentListItem # NULL /\ s.currentList # NULL
        THEN [s EXCEPT
                !.currentList = Some(Append(@.v, Rec(s.currentListItem.v))),
                !.currentListItem =
                    Some(<<[k |-> FieldKey(Trim(line)), v |-> FieldValue(Trim(line))]>>)]
        ELSE s

\* A continuation line of a list record: a line with ':' sets a field of the open
\* record, any other line is dropped.
RecordField(st, line) ==
    LET s == CloseBlock(st)
    IN  IF Includes(Trim(line), ":")
        THEN [s EXCEPT
                !.threw = @ \/ s.currentListItem = NULL,
                !.currentListItem =
                    IF @ = NULL THEN @
                    ELSE Some(Put(@.v, FieldKey(Trim(line)), FieldValue(Trim(line))))]
        ELSE s

\* `if (currentList && leadingSpaces === 0 && trimmed.includes(':'))`: the open
\* record is pushed if it has a field, and the list is stored under currentKey
\* if that is non-empty.
CloseList(st, line) ==
    IF /\ st.currentList # NULL
       /\ SearchNonSpace(line) = 0
       /\ Includes(Trim(line), ":")
    THEN LET flush == st.currentListItem # NULL /\ Len(st.currentListItem.v) > 0
             list  == IF flush
                      THEN Append(st.currentList.v, Rec(st.currentListItem.v))
                      ELSE st.currentList.v
             store == st.currentKey # NULL /\ st.currentKey.v # << >>
         IN  [st EXCEPT
                !.currentListItem = IF flush THEN NULL ELSE @,
                !.result = IF store THEN Put(@, st.currentKey.v, List(list)) ELSE @,
                !.currentList = NULL]
    ELSE st

\* `if (trimmed.includes(':') && !trimmed.startsWith('-'))`: the line is split at
\* its first ':'; an empty value makes the key the pending key.
KeyValue(st, line) ==
    LET trimmed == Trim(line)
        key     == Trim(SliceTo(trimmed, IndexOf(trimmed, ":")))
        value   == StripQuotes(Trim(SliceFrom(trimmed, IndexOf(trimmed, ":") + 1)))
    IN  IF Includes(trimmed, ":") /\ ~StartsWith(trimmed, <<"-">>)
        THEN IF value = << >> /\ ~EndsWith(trimmed, <<"|">>)
             THEN [st EXCEPT !.currentKey = Some(key)]
             ELSE [st EXCEPT !.result = Put(@, key, Str(value))]
        ELSE st

\* Every line that reaches the end of the loop body.
IsKeyLine(st, line) ==
    /\ ~IsSkipLine(line)
    /\ ~IsBlockLine(st, line)
    /\ ~EndsWith(Trim(line), <<"|">>)
    /\ ~StartsWith(Trim(line), <<"-", " ">>)
    /\ ~IsRecordField(st, line)

KeyLine(st, line) == KeyValue(CloseList(CloseBlock(st), line), line)

\* One iteration of the loop over the lines.
ParseLine(st, line) ==
    IF IsSkipLine(line) THEN SkipLine(st, line)
    ELSE IF IsBlockLine(st, line) THEN BlockLine(st, line)
    ELSE IF IsBlockOpen(st, line) THEN BlockOpen(st, line)
    ELSE IF IsListItem(st, line)
         THEN IF Includes(ItemContent(line), ":")
              THEN ListItemRecord(st, line)
              ELSE ListItemPlain(st, line)
    ELSE IF IsRecordField(st, line) THEN RecordField(st, line)
    ELSE KeyLine(st, line)

\* The open list stored as it is, its open record left out.
ParseEndNoFlush(st) ==
    IF st.currentList # NULL /\ st.currentKey # NULL /\ st.currentKey.v # << >>
    THEN [st EXCEPT !.result = Put(@, st.currentKey.v, List(st.currentList.v))]
    ELSE st

\* After the loop: a list that is open is stored under currentKey, the open
\* record pushed first if it has a field.
ParseEnd(st) ==
    IF st.currentList # NULL
    THEN LET flush == st.currentListItem # NULL /\ Len(st.currentListItem.v) > 0
             list  == IF flush
                      THEN Append(st.currentList.v, Rec(st.currentListItem.v))
                      ELSE st.currentList.v
             store == st.currentKey # NULL /\ st.currentKey.v # << >>
         IN  [st EXCEPT
                !.currentList = Some(list),
                !.result = IF store THEN Put(@, st.currentKey.v, List(list)) ELSE @]
    ELSE st

RECURSIVE ParseLines(_, _, _)
ParseLines(st, ls, n) ==
    IF n > Len(ls) THEN st ELSE ParseLines(ParseLine(st, ls[n]), ls, n + 1)

\* parseYAML(text)
ParseYAML(text) == ParseEnd(ParseLines(ParserInit, SplitLines(text), 1)).result

\* ------------------------------------------------------------------- toYAML

\* '  '.repeat(indent)
RECURSIVE Spaces(_)
Spaces(indent) == IF indent = 0 THEN << >> ELSE <<" ", " ">> \o Spaces(indent - 1)

\* `key: "value"\n` after the given prefix
QuotedField(prefix, key, value) ==
    prefix \o key \o <<":", " ", "\"">> \o value \o <<"\"", "\n">>

\* The continuation fields written 2 columns deeper only, under the `-`.
RECURSIVE RestFieldsUnderDash(_, _, _)
RestFieldsUnderDash(spaces, entries, n) ==
    IF n > Len(entries) THEN << >>
    ELSE QuotedField(spaces \o <<" ", " ">>, entries[n].k, entries[n].v)
            \o RestFieldsUnderDash(spaces, entries, n + 1)

\* The continuation fields entries[n..] of a list record, 4 columns deeper.
RECURSIVE RestFields(_, _, _)
RestFields(spaces, entries, n) ==
    IF n > Len(entries) THEN << >>
    ELSE QuotedField(spaces \o <<" ", " ", " ", " ">>, entries[n].k, entries[n].v)
            \o RestFields(spaces, entries, n + 1)

\* One element of a list value.  `typeof item === 'object'` holds of a record and
\* of null, and Object.entries(null) throws; any other element is quoted.
ItemYAML(spaces, item) ==
    IF item.t = "rec"
    THEN IF Len(item.f) > 0
         THEN QuotedField(spaces \o <<" ", " ", "-", " ">>, item.f[1].k, item.f[1].v)
                \o RestFields(spaces, item.f, 2)
         ELSE << >>
    ELSE IF item.t = "null" THEN << >>
    ELSE spaces \o <<" ", " ", "-", " ", "\"">> \o item.s \o <<"\"", "\n">>

RECURSIVE ItemsYAML(_, _, _)
ItemsYAML(spaces, items, n) ==
    IF n > Len(items) THEN << >>
    ELSE ItemYAML(spaces, items[n]) \o ItemsYAML(spaces, items, n + 1)

\* The lines of a string with an embedded newline, one level deeper.
RECURSIVE BlockYAML(_, _, _)
BlockYAML(spaces, ls, n) ==
    IF n > Len(ls) THEN << >>
    ELSE spaces \o <<" ", " ">> \o ls[n] \o <<"\n">> \o BlockYAML(spaces, ls, n + 1)

\* toYAML(obj, indent): the entries in insertion order; null is skipped, a list,
\* a nested mapping, a string with a newline and any other string each have
\* their form.
RECURSIVE ToYAMLFrom(_, _, _)
ToYAMLFrom(obj, indent, n) ==
    IF n > Len(obj) THEN << >>
    ELSE LET spaces == Spaces(indent)
             key    == obj[n].k
             value  == obj[n].v
             here   ==
                IF value.t = "null" THEN << >>
                ELSE IF value.t = "list"
                     THEN spaces \o key \o <<":", "\n">> \o ItemsYAML(spaces, value.l, 1)
                ELSE IF value.t = "map"
                     THEN spaces \o key \o <<":", "\n">> \o ToYAMLFrom(value.m, indent + 1, 1)
                ELSE IF Includes(value.s, "\n")
                     THEN spaces \o key \o <<":", " ", "|", "\n">>
                            \o BlockYAML(spaces, SplitLines(value.s), 1)
                ELSE QuotedField(spaces, key, value.s)
         IN  here \o ToYAMLFrom(obj, indent, n + 1)

\* toYAML writing the flow form `{}` for a mapping without entries.
ToYAMLFlowEmpty(obj, indent) ==
    IF obj = << >> THEN <<"{", "}", "\n">> ELSE ToYAMLFrom(obj, indent, 1)

ToYAML(obj, indent) == ToYAMLFrom(obj, indent, 1)

\* Whether toYAML throws on obj: Object.entries(item) of a null list element.
RECURSIVE ToYAMLThrows(_)
ToYAMLThrows(obj) ==
    \E n \in 1..Len(obj) :
        \/ /\ obj[n].v.t = "list"
           /\ \E j \in 1..Len(obj[n].v.l) : obj[n].v.l[j].t = "null"
        \/ /\ obj[n].v.t = "map"
           /\ ToYAMLThrows(obj[n].v.m)

\* ------------------------------------------------- parseFrontmatter, toMarkdown

Delimiter == <<"-", "-", "-">>

\* The 1-based positions p at which "\n---\n" occurs in text at or after the
\* end of the opening "---\n".
ClosingAt(text) ==
    {p \in 5..(Len(text) - 4) : SubSeq(text, p, p + 4) = <<"\n">> \o Delimiter \o <<"\n">>}

\* text.match(/^---\n([\s\S]*?)\n---\n([\s\S]*)$/) is not null
FrontmatterMatches(text) ==
    /\ StartsWith(text, Delimiter \o <<"\n">>)
    /\ ClosingAt(text) # {}

\* The lazy group ends at the first closing delimiter.
FirstClosing(text) == CHOOSE p \in ClosingAt(text) : \A q \in ClosingAt(text) : p <= q

\* parseFrontmatter trimming the text that does not match.
ParseFrontmatterTrimming(text) ==
    IF ~FrontmatterMatches(text)
    THEN [data |-> << >>, content |-> Trim(text)]
    ELSE [data    |-> ParseYAML(SubSeq(text, 5, FirstClosing(text) - 1)),
          content |-> Trim(SliceFrom(text, FirstClosing(text) + 4))]

\* parseFrontmatter(text)
ParseFrontmatter(text) ==
    IF ~FrontmatterMatches(text)
    THEN [data |-> << >>, content |-> text]
    ELSE [data    |-> ParseYAML(SubSeq(text, 5, FirstClosing(text) - 1)),
          content |-> Trim(SliceFrom(text, FirstClosing(text) + 4))]

\* toMarkdown trimming the content.
ToMarkdownTrimming(data, content) ==
    Delimiter \o <<"\n">> \o ToYAML(data, 0) \o Delimiter \o <<"\n", "\n">> \o Trim(content)

\* toMarkdown(data, content)
ToMarkdown(data, content) ==
    LET md1 == Delimiter \o <<"\n">>
        md2 == md1 \o ToYAML(data, 0)
        md3 == md2 \o Delimiter \o <<"\n", "\n">>
    IN  md3 \o content

\* ---------------------------------------------------------------- the tokens

\* expMap of createJWT, in seconds
OneHour == 3600

OneDay == 86400

SevenDays == 604800

ExpMap(expiresIn) ==
    CASE expiresIn = "1h" -> OneHour
      [] expiresIn = "24h" -> OneDay
      [] OTHER -> SevenDays

\* The key of the server, and a key of somebody else.
JWT_SECRET == "JWT_SECRET"

OtherKey == "not JWT_SECRET"

\* crypto.createHmac('sha256', key).update(message).digest(): the digest is held
\* as the pair it was computed from, so that two digests are equal only when the
\* key and the message are.
Hmac(key, message) == [key |-> key, message |-> message]

\* The value of a field an object does not have.
Undefined == "undefined"

\* A payload before createJWT has added iat and exp; purpose and role are
\* Undefined when the payload has no such field.
Payload(email, purpose, role) ==
    [email |-> email, purpose |-> purpose, role |-> role, iat |-> 0, exp |-> 0]

\* createJWT(payload, expiresIn) at time t: the payload with iat and exp, and
\* its signature.  The header and the base64url JSON encoding are left out: a
\* token is held as its payload and its signature.
CreateJWT(payload, expiresIn, t) ==
    LET fullPayload == [payload EXCEPT !.iat = t, !.exp = t + ExpMap(expiresIn)]
    IN  [payload |-> fullPayload, signature |-> Hmac(JWT_SECRET, fullPayload)]

\* verifyJWT with `<=` for `<`: a token is rejected in its last second.
VerifyJWTEarly(token, t) ==
    IF token.signature # Hmac(JWT_SECRET, token.payload)
    THEN [valid |-> FALSE, error |-> "Invalid signature"]
    ELSE IF token.payload.exp # 0 /\ token.payload.exp <= t
    THEN [valid |-> FALSE, error |-> "Token expired"]
    ELSE [valid |-> TRUE, payload |-> token.payload]

\* verifyJWT(token) at time t: the signature is computed again and compared,
\* then exp is compared with the clock.  A text that is no token has no
\* signature, which differs from every digest.
VerifyJWT(token, t) ==
    IF token.signature # Hmac(JWT_SECRET, token.payload)
    THEN [valid |-> FALSE, error |-> "Invalid signature"]
    ELSE IF token.payload.exp # 0 /\ token.payload.exp < t
    THEN [valid |-> FALSE, error |-> "Token expired"]
    ELSE [valid |-> TRUE, payload |-> token.payload]

\* createMagicLinkToken(email)
CreateMagicLinkToken(email, t) ==
    CreateJWT(Payload(email, "magic-link", Undefined), "1h", t)

\* authenticateRequest(req): the Authorization header holds a token or nothing.
AuthenticateRequest(authorization, t) ==
    IF authorization = NULL
    THEN [authenticated |-> FALSE, error |-> "No token provided"]
    ELSE IF ~VerifyJWT(authorization, t).valid
    THEN [authenticated |-> FALSE, error |-> VerifyJWT(authorization, t).error]
    ELSE [authenticated |-> TRUE, user |-> VerifyJWT(authorization, t).payload]

\* ------------------------------------------------------------ the auth handler

\* String.prototype.toLowerCase, for the letters of the addresses
ToLowerCase(s) ==
    [n \in 1..Len(s) |->
        IF s[n] = "A" THEN "a" ELSE IF s[n] = "G" THEN "g" ELSE s[n]]

\* env.split(','), as text.split('\n') above
RECURSIVE SplitCommas(_)
SplitCommas(env) ==
    IF Includes(env, ",")
    THEN <<SliceTo(env, IndexOf(env, ","))>>
            \o SplitCommas(SliceFrom(env, IndexOf(env, ",") + 1))
    ELSE <<env>>

\* (process.env.ADMIN_EMAIL || '').split(',').map(e => e.trim().toLowerCase())
\*     .filter(Boolean)
AdminEmailsOf(env) ==
    SelectSeq([n \in 1..Len(SplitCommas(env)) |-> ToLowerCase(Trim(SplitCommas(env)[n]))],
              LAMBDA e : e # << >>)

Json(status, body) == [status |-> status, body |-> body]

LoginLinkMessage ==
    [message |-> "If this email is registered, you will receive a login link."]

\* What a handler did: its response, the tokens it created and the mails it
\* handed to the mail service.
Handled(res, tokens, mails) == [response |-> res, issued |-> tokens, sent |-> mails]

\* POST /api/auth/request with req.body.email, the mail service accepting the
\* mail or not.  An address outside a configured list gets the answer and
\* nothing else; else a magic-link token is created and mailed, and a mail that
\* cannot be sent throws into the catch of the handler.
PostRequest(email, admins, sendOk, t) ==
    IF email = << >>
    THEN Handled(Json(400, [error |-> "Email is required"]), {}, {})
    ELSE IF Len(admins) > 0 /\ ~Includes(admins, ToLowerCase(email))
    THEN Handled(Json(200, LoginLinkMessage), {}, {})
    ELSE LET magicToken == CreateMagicLinkToken(email, t)
         IN  IF sendOk
             THEN Handled(Json(200, LoginLinkMessage), {magicToken},
                          {[to |-> email, token |-> magicToken]})
             ELSE Handled(Json(500, [error |-> "Internal server error"]), {magicToken}, {})

\* The test of the purpose left out: every valid token is exchanged.
PostVerifyAnyPurpose(token, t) ==
    IF token = NULL
    THEN Handled(Json(400, [error |-> "Token is required"]), {}, {})
    ELSE IF ~VerifyJWT(token, t).valid
    THEN Handled(Json(401, [error |-> "Invalid or expired link"]), {}, {})
    ELSE LET sessionToken ==
                CreateJWT(Payload(VerifyJWT(token, t).payload.email, Undefined, "admin"), "7d", t)
         IN  Handled(Json(200, [token |-> sessionToken,
                                email |-> VerifyJWT(token, t).payload.email,
                                expiresIn |-> "7d"]),
                     {sessionToken}, {})

\* POST /api/auth/verify with req.body.token
PostVerify(token, t) ==
    IF token = NULL
    THEN Handled(Json(400, [error |-> "Token is required"]), {}, {})
    ELSE IF \/ ~VerifyJWT(token, t).valid
            \/ VerifyJWT(token, t).payload.purpose # "magic-link"
    THEN Handled(Json(401, [error |-> "Invalid or expired link"]), {}, {})
    ELSE LET sessionToken ==
                CreateJWT(Payload(VerifyJWT(token, t).payload.email, Undefined, "admin"), "7d", t)
         IN  Handled(Json(200, [token |-> sessionToken,
                                email |-> VerifyJWT(token, t).payload.email,
                                expiresIn |-> "7d"]),
                     {sessionToken}, {})

\* GET /api/auth/me with the Authorization header
GetMe(authorization, t) ==
    IF authorization = NULL
    THEN Handled(Json(401, [error |-> "Not authenticated"]), {}, {})
    ELSE IF ~VerifyJWT(authorization, t).valid
    THEN Handled(Json(401, [error |-> VerifyJWT(authorization, t).error]), {}, {})
    ELSE Handled(Json(200, [email |-> VerifyJWT(authorization, t).payload.email,
                            role |-> VerifyJWT(authorization, t).payload.role]), {}, {})

\* ------------------------------------------------------------------ the store

\* The hash of a content: two contents have the same hash only when they are
\* the same content.
Sha(content) == [blob |-> content]

File(content) == [content |-> content, sha |-> Sha(content)]

\* contentPaths, and the path of a blog post
ContentTypes == {"about", "quotes", "workouts", "site"}

ContentPath(contentType) ==
    CASE contentType = "about" ->
            <<"c", "o", "n", "t", "e", "n", "t", "/", "a", "b", "o", "u", "t", ".", "y", "m", "l">>
      [] contentType = "quotes" ->
            <<"c", "o", "n", "t", "e", "n", "t", "/", "q", "u", "o", "t", "e", "s", ".", "y", "m", "l">>
      [] contentType = "workouts" ->
            <<"c", "o", "n", "t", "e", "n", "t", "/", "w", "o", "r", "k", "o", "u", "t", "s", ".", "y", "m", "l">>
      [] contentType = "site" ->
            <<"c", "o", "n", "t", "e", "n", "t", "/", "s", "i", "t", "e", ".", "y", "m", "l">>

\* blogDir of handleBlog, and `${blogDir}/${slug}.md`
BlogDir == <<"c", "o", "n", "t", "e", "n", "t", "/", "b", "l", "o", "g">>

BlogPath(slug) == BlogDir \o <<"/">> \o slug \o <<".", "m", "d">>

\* The names a post of the store can have, in the order the store lists them.
BlogSlugs == << <<"p">>, <<"q">> >>

\* A request to the store, as githubRequest sends it.
GithubGet(path) == [method |-> "GET", path |-> path]

GithubPut(path, content, sha) ==
    [method |-> "PUT", path |-> path, content |-> content, sha |-> sha]

\* The contents API of the store: an update of a file is accepted when it
\* carries the hash the file has now, and the creation of a file when it
\* carries none; any other update is answered with an error, which
\* githubRequest throws.
StoreAccepts(files, put) ==
    IF files[put.path] = NULL THEN put.sha = NULL ELSE put.sha = files[put.path].sha

\* An update made without looking at the hash the caller sent.
UpdateFileContentForced(files, path, content, sha) ==
    LET put == GithubPut(path, content, IF files[path] = NULL THEN NULL ELSE files[path].sha)
    IN  [ok |-> TRUE,
         files |-> [files EXCEPT ![path] = File(content)],
         githubRequests |-> <<put>>]

\* updateFileContent(filePath, content, message, sha): body.sha is set when sha
\* is given, one PUT is sent, and its rejection is thrown.
UpdateFileContent(files, path, content, sha) ==
    LET put == GithubPut(path, content, sha)
    IN  [ok |-> StoreAccepts(files, put),
         files |-> IF StoreAccepts(files, put)
                   THEN [files EXCEPT ![path] = File(content)]
                   ELSE files,
         githubRequests |-> <<put>>]

\* --------------------------------------------------------- the content handler

\* What the handler did: its response, the files after it and the requests it
\* sent to the store.
Served(res, files, requests) ==
    [response |-> res, store |-> files, githubRequests |-> requests]

\* res.status(500) of the catch of the handler, with the message of the error
InternalServerError(details) ==
    Json(500, [error |-> "Internal server error", details |-> details])

\* The answer of the platform to a handler whose promise is rejected.
FunctionFailed == Json(500, [error |-> "handler rejected"])

\* data.title.toLowerCase().replace(/[^a-z0-9]+/g, '-').replace(/^-|-$/g, ''),
\* for titles of letters
SlugOf(title) == ToLowerCase(title)

\* !data?.title is false: the body has data with a title that is not empty
HasTitle(data) ==
    IF data = NULL THEN FALSE
    ELSE IF ~HasKey(data.v, <<"t", "i", "t", "l", "e">>) THEN FALSE
    ELSE IF Get(data.v, <<"t", "i", "t", "l", "e">>).t # "str" THEN FALSE
    ELSE Get(data.v, <<"t", "i", "t", "l", "e">>).s # << >>

\* handleBlog(req, res, slug): the list of the posts (the sort by date is left
\* out: the order is the one of the store), one post, a new post, an
\* update of a post; req.body.content || '' is held in req.content.  It is called without await inside the try of the handler,
\* so what it throws rejects the handler and the catch does not run.
HandleBlog(req, files) ==
    IF req.method = "GET" /\ req.slug = << >>
    THEN LET slugs == SelectSeq(BlogSlugs, LAMBDA sl : files[BlogPath(sl)] # NULL)
         IN  Served(Json(200, [posts |->
                        [n \in 1..Len(slugs) |->
                            [slug |-> slugs[n], sha |-> files[BlogPath(slugs[n])].sha,
                             data |-> ParseFrontmatter(files[BlogPath(slugs[n])].content).data]]]),
                    files,
                    <<GithubGet(BlogDir)>>
                        \o [n \in 1..Len(slugs) |-> GithubGet(BlogPath(slugs[n]))])
    ELSE IF req.method = "GET"
    THEN IF BlogPath(req.slug) \notin DOMAIN files
         THEN Served(Json(404, [error |-> "Post not found"]), files,
                     <<GithubGet(BlogPath(req.slug))>>)
         ELSE IF files[BlogPath(req.slug)] = NULL
         THEN Served(Json(404, [error |-> "Post not found"]), files,
                     <<GithubGet(BlogPath(req.slug))>>)
         ELSE LET file == files[BlogPath(req.slug)]
              IN  Served(Json(200, [slug |-> req.slug, sha |-> file.sha,
                                    data |-> ParseFrontmatter(file.content).data,
                                    content |-> ParseFrontmatter(file.content).content]),
                         files, <<GithubGet(BlogPath(req.slug))>>)
    ELSE IF req.method = "POST"
    THEN IF ~HasTitle(req.data)
         THEN Served(Json(400, [error |-> "Title is required"]), files, << >>)
         ELSE IF ToYAMLThrows(req.data.v) THEN Served(FunctionFailed, files, << >>)
         ELSE LET newSlug  == SlugOf(Get(req.data.v, <<"t", "i", "t", "l", "e">>).s)
                  markdown == ToMarkdown(req.data.v, req.content)
                  update   == UpdateFileContent(files, BlogPath(newSlug), markdown, NULL)
              IN  IF update.ok
                  THEN Served(Json(201, [success |-> TRUE, slug |-> newSlug]),
                              update.files, update.githubRequests)
                  ELSE Served(FunctionFailed, update.files, update.githubRequests)
    ELSE IF req.method = "PUT" /\ req.slug # << >>
    THEN IF req.data = NULL
         THEN Served(Json(400, [error |-> "Data is required"]), files, << >>)
         ELSE IF ToYAMLThrows(req.data.v) THEN Served(FunctionFailed, files, << >>)
         ELSE LET markdown == ToMarkdown(req.data.v, req.content)
                  update   == UpdateFileContent(files, BlogPath(req.slug), markdown, req.sha)
              IN  IF update.ok
                  THEN Served(Json(200, [success |-> TRUE, slug |-> req.slug]),
                              update.files, update.githubRequests)
                  ELSE Served(FunctionFailed, update.files, update.githubRequests)
    ELSE Served(Json(405, [error |-> "Method not allowed"]), files, << >>)

\* The handler after the authentication: the list of types, the blog, and a
\* content file read (parseYAML) or written (toYAML) in the store.
ContentRoutes(req, files) ==
    IF req.method = "GET" /\ req.contentType = Undefined
    THEN Served(Json(200, [types |-> <<"about", "quotes", "workouts", "site", "blog">>]),
                files, << >>)
    ELSE IF req.contentType = "blog" THEN HandleBlog(req, files)
    ELSE IF req.contentType \notin ContentTypes
    THEN Served(Json(404, [error |-> "Content type not found"]), files, << >>)
    ELSE LET filePath == ContentPath(req.contentType)
         IN  IF req.method = "GET"
             THEN IF files[filePath] = NULL
                  THEN Served(Json(404, [error |-> "Content not found"]), files,
                              <<GithubGet(filePath)>>)
                  ELSE Served(Json(200, [data |-> ParseYAML(files[filePath].content),
                                         sha |-> files[filePath].sha]),
                              files, <<GithubGet(filePath)>>)
             ELSE IF req.method = "PUT"
             THEN IF req.data = NULL
                  THEN Served(Json(400, [error |-> "Data is required"]), files, << >>)
                  ELSE IF ToYAMLThrows(req.data.v)
                  THEN Served(InternalServerError("TypeError"), files, << >>)
                  ELSE LET update == UpdateFileContent(files, filePath, ToYAML(req.data.v, 0), req.sha)
                       IN  IF update.ok
                           THEN Served(Json(200, [success |-> TRUE, message |-> "Content updated"]),
                                       update.files, update.githubRequests)
                           ELSE Served(InternalServerError("GitHub API error"),
                                       update.files, update.githubRequests)
             ELSE Served(Json(405, [error |-> "Method not allowed"]), files, << >>)

\* The handler without its authentication.
ContentHandlerOpen(req, files, t) ==
    IF req.method = "OPTIONS" THEN Served(Json(204, NULL), files, << >>)
    ELSE ContentRoutes(req, files)

\* handler(req, res) of the content API at time t: the preflight, the
\* authentication, then the routes.
ContentHandler(req, files, t) ==
    IF req.method = "OPTIONS" THEN Served(Json(204, NULL), files, << >>)
    ELSE IF ~AuthenticateRequest(req.authorization, t).authenticated
    THEN Served(Json(401, [error |-> AuthenticateRequest(req.authorization, t).error]),
                files, << >>)
    ELSE ContentRoutes(req, files)

\* handler(req, res) of the auth API: the preflight, the three routes, and 404
\* for anything else.
AuthHandler(req, admins, t) ==
    IF req.method = "OPTIONS" THEN Handled(Json(204, NULL), {}, {})
    ELSE IF req.method = "POST" /\ req.route = "request"
    THEN PostRequest(req.email, admins, req.sendOk, t)
    ELSE IF req.method = "POST" /\ req.route = "verify" THEN PostVerify(req.token, t)
    ELSE IF req.method = "GET" /\ req.route = "me" THEN GetMe(req.authorization, t)
    ELSE Handled(Json(404, [error |-> "Not found"]), {}, {})

\* ------------------------------------------------------------------ inputs

\* The line shapes the inputs of parseYAML are made of: the subset that the
\* content files use, a comment, and a line outside the subset.
PendingKeyLine == <<"a", ":">>

PlainItemLine == <<" ", " ", "-", " ", "x">>

RecordItemLine == <<" ", " ", "-", " ", "k", ":", " ", "v">>

FieldLine == <<" ", " ", " ", " ", "m", ":", " ", "w">>

BlockOpenLine == <<"b", ":", " ", "|">>

BlockTextLine == <<" ", " ", "t">>

ScalarLine == <<"c", ":", " ", "\"", "y", "\"">>

BlankLine == << >>

CommentLine == <<"#", " ", "z">>

FlowLine == <<"[", "q", "]">>

LineShapes ==
    { PendingKeyLine, PlainItemLine, RecordItemLine, FieldLine, BlockOpenLine,
      BlockTextLine, ScalarLine, BlankLine, CommentLine, FlowLine }

\* Every text of at most MaxLines lines.
YamlTexts == {JoinLines(ls) : ls \in UNION {[1..n -> LineShapes] : n \in 0..MaxLines}}

\* The mappings given to toYAML: at most MaxEntries entries with distinct keys,
\* each value a flat string (one of them empty), a multiline string, a list of
\* strings, a list of single-level records, a nested mapping or null.
TreeKeys == {<<"a">>, <<"b">>, <<"c">>}

RecordKV == Rec(<<[k |-> <<"k">>, v |-> <<"v">>]>>)

RecordKVMW == Rec(<<[k |-> <<"k">>, v |-> <<"v">>], [k |-> <<"m">>, v |-> <<"w">>]>>)

TreeValues ==
    { Str(<<"x">>),
      Str(<< >>),
      Str(<<"t", "\n", "u">>),
      List(<<Str(<<"x">>)>>),
      List(<<Str(<<"x">>), Str(<<"y">>)>>),
      List(<<RecordKVMW>>),
      List(<<RecordKV, RecordKVMW>>),
      List(<<Str(<<"x">>), Null>>),
      Map(<<[k |-> <<"s">>, v |-> Str(<<"x">>)]>>),
      Map(<<[k |-> <<"s">>, v |-> List(<<RecordKVMW>>)]>>),
      Null }

Trees ==
    UNION { { [j \in 1..n |-> [k |-> ks[j], v |-> vs[j]]] :
                ks \in {f \in [1..n -> TreeKeys] : \A p, q \in 1..n : p # q => f[p] # f[q]},
                vs \in [1..n -> TreeValues] } :
            n \in 0..MaxEntries }

\* The line shapes the inputs of parseFrontmatter are made of, and the bodies
\* given to toMarkdown.
BodyLine == <<" ", "h", "i", " ">>

DashLine == <<"-", "-", "-", "-">>

DocLineShapes == {Delimiter, DashLine, ScalarLine, BlankLine, BodyLine}

DocTexts == {JoinLines(ls) : ls \in UNION {[1..n -> DocLineShapes] : n \in 0..MaxDocLines}}

Bodies == {<< >>, BodyLine, <<"\n", "h", "i", "\n">>}

\* The characters of the value of a `key: value` line: a letter, the two quote
\* characters, the block-scalar marker and a space.
ValueChars == {"a", "\"", "'", "|", " "}

ScalarValues == UNION {[1..n -> ValueChars] : n \in 0..MaxValueLen}

\* The line `k: value`
ScalarLineOf(value) == <<"k", ":", " ">> \o value

\* One-line inputs of parseYAML: a key and any value.
ScalarTexts == {ScalarLineOf(value) : value \in ScalarValues}

\* `  # z`, indented as the text of a block scalar is
IndentedCommentLine == <<" ", " ", "#", " ", "z">>

\* The lines that follow a `key: |` line and are indented more than it, or are
\* blank: plain text, text in the form of a list item, of a field and of a
\* comment, and a blank line.
BlockShapes == {BlockTextLine, PlainItemLine, FieldLine, IndentedCommentLine, BlankLine}

\* Inputs of parseYAML that open a block scalar: the `key: |` line, the lines of
\* the block, and a scalar line after it or the end of input.
BlockTexts ==
    {JoinLines(<<BlockOpenLine>> \o ls \o closing) :
        ls \in UNION {[1..n -> BlockShapes] : n \in 0..MaxBlockLines},
        closing \in {<< >>, <<ScalarLine>>}}

\* `    # n: o` and `    d: |`, indented as the fields of a list record are
FieldCommentLine == <<" ", " ", " ", " ", "#", " ", "n", ":", " ", "o">>

FieldBlockOpenLine == <<" ", " ", " ", " ", "d", ":", " ", "|">>

\* The lines that follow a `- key: value` line: a field, a comment and a
\* block-scalar opener at the indentation of a field, and the next item.
FieldShapes == {FieldLine, FieldCommentLine, FieldBlockOpenLine, RecordItemLine}

\* Inputs of parseYAML that hold one list of records: the pending key line, the
\* first item, and the lines after it.
RecordTexts ==
    {JoinLines(<<PendingKeyLine, RecordItemLine>> \o ls) :
        ls \in UNION {[1..n -> FieldShapes] : n \in 0..MaxFieldLines}}

\* The instants of the clock: a few seconds after the start, after one hour and
\* after seven days.
Instants == {d + s : d \in {0, OneHour, SevenDays}, s \in 0..MaxSkew}

\* The addresses submitted to POST /request, and the values of ADMIN_EMAIL.
Emails == {<<"A">>, <<"g">>}

AdminEnvs == {<< >>, <<"a", ",", " ">>}

\* What can be made of a token without the key of the server: the payload
\* signed with another key, the payload with a later exp or with the purpose of
\* a magic link under the old signature, and a text that is no token.
Forged(token) ==
    [payload |-> token.payload, signature |-> Hmac(OtherKey, token.payload)]

Prolonged(token) ==
    [payload |-> [token.payload EXCEPT !.exp = @ + SevenDays], signature |-> token.signature]

Relabelled(token) ==
    [payload |-> [token.payload EXCEPT !.purpose = "magic-link"],
     signature |-> token.signature]

NoToken == [payload |-> NULL, signature |-> NULL]

\* The requests to the auth API.
AuthReq(method, route, email, token, authorization, sendOk) ==
    [api |-> "auth", method |-> method, route |-> route, email |-> email,
     token |-> token, authorization |-> authorization, sendOk |-> sendOk]

\* The requests to the content API; client is the one who sent it, 0 for
\* somebody else.
ContentReq(client, method, contentType, slug, authorization, data, content, sha) ==
    [api |-> "content", client |-> client, method |-> method,
     contentType |-> contentType, slug |-> slug, authorization |-> authorization,
     data |-> data, content |-> content, sha |-> sha]

\* The data of the bodies sent to the content API: a mapping with a title, one
\* with a null in a list, and the ones the editors send.
TitleKey == <<"t", "i", "t", "l", "e">>

Titled == <<[k |-> TitleKey, v |-> Str(<<"q">>)]>>

NullInList == <<[k |-> <<"k">>, v |-> List(<<Str(<<"x">>), Null>>)]>>

PutData ==
    { <<[k |-> <<"k">>, v |-> Str(<<"x">>)]>>,
      <<[k |-> <<"k">>, v |-> Str(<<"y">>)]>>,
      NullInList }

\* The store at the start: the about file and the post p, and no other file.
StorePaths ==
    {ContentPath(c) : c \in ContentTypes} \cup {BlogPath(BlogSlugs[n]) : n \in 1..Len(BlogSlugs)}

SiteFiles ==
    [path \in StorePaths |->
        IF path = ContentPath("about")
        THEN File(ToYAML(<<[k |-> <<"k">>, v |-> Str(<<"x">>)]>>, 0))
        ELSE IF path = BlogPath(<<"p">>)
        THEN File(ToMarkdown(<<[k |-> <<"k">>, v |-> Str(<<"x">>)]>>, BodyLine))
        ELSE NULL]

\* The clients that edit the site.
Clients == 1..MaxClients

\* The path a content request is about.
PathOf(req) ==
    IF req.contentType = "blog" THEN BlogPath(req.slug) ELSE ContentPath(req.contentType)

\* ----------------------------------------------------------- state machine

VARIABLES
    text,               \* the argument of parseYAML
    lines,              \* text.split('\n')
    i,                  \* the loop index, from 1
    result, currentKey, currentList, currentListItem,
    inMultilineString, multilineKey, multilineContent, indentLevel,
    threw,              \* whether a step dereferenced null
    phase,              \* where the pipeline stands
    out,                \* the mapping in hand: read by parseYAML, or given
    yaml,               \* toYAML(out)
    out2,               \* the mapping read back from what was written
    yaml2,              \* toYAML(out2)
    body,               \* the content parseFrontmatter returned
    given,              \* the content given to toMarkdown
    md,                 \* toMarkdown(out, given)
    body2,              \* the content read back from md
    now,                \* Math.floor(Date.now() / 1000), from the first request on
    ADMIN_EMAILS,       \* the addresses configured in ADMIN_EMAIL
    issued,             \* the tokens createJWT has returned
    sent,               \* the magic links handed to the mail service
    request,            \* the request a handler answered last
    response,           \* its response
    store,              \* the files in the remote store: content and hash
    githubRequests,     \* the requests the last handler sent to the store
    held                \* what each client of the admin panel read last

parserVars ==
    <<result, currentKey, currentList, currentListItem,
      inMultilineString, multilineKey, multilineContent, indentLevel, threw>>

pipeVars == <<out, yaml, out2, yaml2>>

docVars == <<body, given, md, body2>>

siteVars ==
    <<now, ADMIN_EMAILS, issued, sent, request, response, store, githubRequests, held>>

vars == <<text, lines, i, parserVars, phase, pipeVars, docVars, siteVars>>

\* The locals of parseYAML as one record, and back.
Locals ==
    [ result            |-> result,
      currentKey        |-> currentKey,
      currentList       |-> currentList,
      currentListItem   |-> currentListItem,
      inMultilineString |-> inMultilineString,
      multilineKey      |-> multilineKey,
      multilineContent  |-> multilineContent,
      indentLevel       |-> indentLevel,
      threw             |-> threw ]

SetLocals(st) ==
    /\ result' = st.result
    /\ currentKey' = st.currentKey
    /\ currentList' = st.currentList
    /\ currentListItem' = st.currentListItem
    /\ inMultilineString' = st.inMultilineString
    /\ multilineKey' = st.multilineKey
    /\ multilineContent' = st.multilineContent
    /\ indentLevel' = st.indentLevel
    /\ threw' = st.threw

\* The locals of parseYAML and the outputs of the pipeline before anything ran.
Fresh ==
    /\ i = 1
    /\ result = ParserInit.result
    /\ currentKey = ParserInit.currentKey
    /\ currentList = ParserInit.currentList
    /\ currentListItem = ParserInit.currentListItem
    /\ inMultilineString = ParserInit.inMultilineString
    /\ multilineKey = ParserInit.multilineKey
    /\ multilineContent = ParserInit.multilineContent
    /\ indentLevel = ParserInit.indentLevel
    /\ threw = ParserInit.threw
    /\ yaml = << >>
    /\ out2 = << >>
    /\ yaml2 = << >>
    /\ body = << >>
    /\ given = << >>
    /\ md = << >>
    /\ body2 = << >>

\* No request reaches the handlers: the codec is run on its own.
NoSite ==
    /\ now = 0
    /\ ADMIN_EMAILS = << >>
    /\ issued = {}
    /\ sent = {}
    /\ request = NULL
    /\ response = NULL
    /\ store = NULL
    /\ githubRequests = << >>
    /\ held = << >>

\* parseYAML is called on a text.
Init ==
    /\ text \in YamlTexts
    /\ lines = SplitLines(text)
    /\ phase = "parse"
    /\ out = << >>
    /\ Fresh
    /\ NoSite

\* The loop is at line i.
AtLine == phase = "parse" /\ i <= Len(lines)

Advance(st) ==
    /\ SetLocals(st)
    /\ i' = i + 1
    /\ UNCHANGED <<text, lines, phase, pipeVars, docVars, siteVars>>

StepSkipLine ==
    /\ AtLine
    /\ IsSkipLine(lines[i])
    /\ Advance(SkipLine(Locals, lines[i]))

StepBlockLine ==
    /\ AtLine
    /\ IsBlockLine(Locals, lines[i])
    /\ Advance(BlockLine(Locals, lines[i]))

StepBlockOpen ==
    /\ AtLine
    /\ IsBlockOpen(Locals, lines[i])
    /\ Advance(BlockOpen(Locals, lines[i]))

StepListItemRecord ==
    /\ AtLine
    /\ IsListItem(Locals, lines[i])
    /\ Includes(ItemContent(lines[i]), ":")
    /\ Advance(ListItemRecord(Locals, lines[i]))

StepListItemPlain ==
    /\ AtLine
    /\ IsListItem(Locals, lines[i])
    /\ ~Includes(ItemContent(lines[i]), ":")
    /\ Advance(ListItemPlain(Locals, lines[i]))

StepRecordField ==
    /\ AtLine
    /\ IsRecordField(Locals, lines[i])
    /\ Advance(RecordField(Locals, lines[i]))

StepKeyLine ==
    /\ AtLine
    /\ IsKeyLine(Locals, lines[i])
    /\ Advance(KeyLine(Locals, lines[i]))

\* The loop has ended: the open list is stored and the mapping is returned.
Return ==
    /\ phase = "parse"
    /\ i > Len(lines)
    /\ SetLocals(ParseEnd(Locals))
    /\ out' = ParseEnd(Locals).result
    /\ phase' = "data"
    /\ UNCHANGED <<text, lines, i, yaml, out2, yaml2, docVars, siteVars>>

\* The mapping that was read is written back: toYAML(data).
Serialize ==
    /\ phase = "data"
    /\ ~ToYAMLThrows(out)
    /\ yaml' = ToYAML(out, 0)
    /\ phase' = "serialized"
    /\ UNCHANGED <<text, lines, i, parserVars, out, out2, yaml2, docVars, siteVars>>

\* toYAML(data) throws: the handler catches the error and answers 500, and
\* nothing is written.
SerializeThrows ==
    /\ phase = "data"
    /\ ToYAMLThrows(out)
    /\ phase' = "error"
    /\ UNCHANGED <<text, lines, i, parserVars, pipeVars, docVars, siteVars>>

\* The text that was written is read again.
Reparse ==
    /\ phase = "serialized"
    /\ out2' = ParseYAML(yaml)
    /\ phase' = "reparsed"
    /\ UNCHANGED <<text, lines, i, parserVars, out, yaml, yaml2, docVars, siteVars>>

Reserialize ==
    /\ phase = "reparsed"
    /\ yaml2' = ToYAML(out2, 0)
    /\ phase' = "done"
    /\ UNCHANGED <<text, lines, i, parserVars, out, yaml, out2, docVars, siteVars>>

Next ==
    \/ StepSkipLine
    \/ StepBlockLine
    \/ StepBlockOpen
    \/ StepListItemRecord
    \/ StepListItemPlain
    \/ StepRecordField
    \/ StepKeyLine
    \/ Return
    \/ Serialize
    \/ Reparse
    \/ Reserialize

Spec == Init /\ [][Next]_vars

\* toYAML is called on a mapping that the admin panel sent: the content PUT
\* handler, followed by a read of what it wrote.
InitTree ==
    /\ out \in Trees
    /\ text = << >>
    /\ lines = << >>
    /\ phase = "data"
    /\ Fresh
    /\ NoSite

NextTree == Serialize \/ SerializeThrows \/ Reparse \/ Reserialize

SpecTree == InitTree /\ [][NextTree]_vars

\* parseFrontmatter is called on a document.
InitDoc ==
    /\ text \in DocTexts
    /\ lines = << >>
    /\ phase = "text"
    /\ out = << >>
    /\ Fresh
    /\ NoSite

Split ==
    /\ phase = "text"
    /\ out' = ParseFrontmatter(text).data
    /\ body' = ParseFrontmatter(text).content
    /\ phase' = "split"
    /\ UNCHANGED <<text, lines, i, parserVars, yaml, out2, yaml2, given, md, body2, siteVars>>

\* toMarkdown is called on the metadata that was read and on the content that
\* was read or on a content that the admin panel sent.
Compose ==
    /\ phase = "split"
    /\ \E content \in {body} \cup Bodies :
        /\ given' = content
        /\ md' = ToMarkdown(out, content)
    /\ phase' = "composed"
    /\ UNCHANGED <<text, lines, i, parserVars, pipeVars, body, body2, siteVars>>

Resplit ==
    /\ phase = "composed"
    /\ out2' = ParseFrontmatter(md).data
    /\ body2' = ParseFrontmatter(md).content
    /\ phase' = "resplit"
    /\ UNCHANGED <<text, lines, i, parserVars, out, yaml, yaml2, body, given, md, siteVars>>

NextDoc == Split \/ Compose \/ Resplit

SpecDoc == InitDoc /\ [][NextDoc]_vars

\* parseYAML is called on a single `key: value` line; the line is a block-scalar
\* opener or reaches the end of the loop body.
InitScalar ==
    /\ text \in ScalarTexts
    /\ lines = SplitLines(text)
    /\ phase = "parse"
    /\ out = << >>
    /\ Fresh
    /\ NoSite

NextScalar == StepBlockOpen \/ StepKeyLine \/ Return

SpecScalar == InitScalar /\ [][NextScalar]_vars

\* parseYAML is called on a text that opens a block scalar on its first line.
InitBlock ==
    /\ text \in BlockTexts
    /\ lines = SplitLines(text)
    /\ phase = "parse"
    /\ out = << >>
    /\ Fresh
    /\ NoSite

NextBlock ==
    \/ StepSkipLine
    \/ StepBlockLine
    \/ StepBlockOpen
    \/ StepKeyLine
    \/ Return

SpecBlock == InitBlock /\ [][NextBlock]_vars

\* parseYAML is called on a text that holds one list of records.
InitRecord ==
    /\ text \in RecordTexts
    /\ lines = SplitLines(text)
    /\ phase = "parse"
    /\ out = << >>
    /\ Fresh
    /\ NoSite

NextRecord ==
    \/ StepSkipLine
    \/ StepBlockOpen
    \/ StepListItemRecord
    \/ StepRecordField
    \/ StepKeyLine
    \/ Return

SpecRecord == InitRecord /\ [][NextRecord]_vars

\* ------------------------------------------------------------------ the site

\* The codec variables while the handlers run: nothing is parsed step by step.
NoCodec ==
    /\ text = << >>
    /\ lines = << >>
    /\ phase = "site"
    /\ out = << >>
    /\ Fresh

codecVars == <<text, lines, i, parserVars, phase, pipeVars, docVars>>

\* The tokens somebody outside the server holds: the ones that were mailed and
\* the session tokens, which are returned in the response.
Delivered == {m.token : m \in sent} \cup {k \in issued : k.payload.role = "admin"}

\* The tokens a request can carry.
Presentable ==
    Delivered
        \cup {Forged(k) : k \in Delivered}
        \cup {Prolonged(k) : k \in Delivered}
        \cup {Relabelled(k) : k \in Delivered}
        \cup {NoToken}

\* The request with the time at which it was received.
Received(req) == [at |-> now] @@ req

\* Time passes.
Tick ==
    /\ \E t \in Instants :
        /\ t > now
        /\ now' = t
    /\ UNCHANGED <<codecVars, ADMIN_EMAILS, issued, sent, request, response, store,
                   githubRequests, held>>

AuthRequests ==
    {AuthReq("OPTIONS", "request", << >>, NULL, NULL, TRUE),
     AuthReq("GET", "logout", << >>, NULL, NULL, TRUE)}
        \cup {AuthReq("POST", "request", e, NULL, NULL, ok) :
                e \in Emails \cup {<< >>}, ok \in BOOLEAN}
        \cup {AuthReq("POST", "verify", << >>, k, NULL, TRUE) : k \in Presentable \cup {NULL}}
        \cup {AuthReq("GET", "me", << >>, NULL, k, TRUE) : k \in Presentable \cup {NULL}}

\* A request reaches the auth API.
AuthCall ==
    /\ \E req \in AuthRequests :
        LET handled == AuthHandler(req, ADMIN_EMAILS, now)
        IN  /\ Cardinality(issued \cup handled.issued) <= MaxTokens
            /\ request' = Received(req)
            /\ response' = handled.response
            /\ issued' = issued \cup handled.issued
            /\ sent' = sent \cup handled.sent
    /\ githubRequests' = << >>
    /\ UNCHANGED <<codecVars, now, ADMIN_EMAILS, store, held>>

\* A request that reads reaches the content API with one of the tokens.
ContentRead ==
    /\ \E k \in Presentable \cup {NULL} :
        LET req    == ContentReq(0, "GET", "about", << >>, k, NULL, << >>, NULL)
            served == ContentHandler(req, store, now)
        IN  /\ request' = Received(req)
            /\ response' = served.response
            /\ store' = served.store
            /\ githubRequests' = served.githubRequests
    /\ UNCHANGED <<codecVars, now, ADMIN_EMAILS, issued, sent, held>>

\* The site with its logins: the clock, the auth API and the reads of the
\* content API.
InitAuth ==
    /\ NoCodec
    /\ now = 0
    /\ ADMIN_EMAILS \in {AdminEmailsOf(env) : env \in AdminEnvs}
    /\ issued = {}
    /\ sent = {}
    /\ request = NULL
    /\ response = NULL
    /\ store = SiteFiles
    /\ githubRequests = << >>
    /\ held = << >>

NextAuth == Tick \/ AuthCall \/ ContentRead

SpecAuth == InitAuth /\ [][NextAuth]_vars

\* The session tokens of the editors: one that has expired and one that has not.
ExpiredSession == CreateJWT(Payload(<<"a">>, Undefined, "admin"), "7d", 0)

Session == CreateJWT(Payload(<<"a">>, Undefined, "admin"), "7d", 1)

\* What a client holds of a file it has read: the hash, the content the hash is
\* of, and whether an update of the file was accepted since.
Held(req, file) ==
    [contentType |-> req.contentType, slug |-> req.slug, sha |-> file.sha,
     content |-> file.content, overwritten |-> FALSE]

\* held after a request was served: an accepted update marks what the others
\* hold of the file.
Overwritten(h, req, served) ==
    [c \in Clients |->
        IF /\ h[c] # NULL
           /\ req.method = "PUT"
           /\ served.response.status = 200
           /\ h[c].contentType = req.contentType
           /\ h[c].slug = req.slug
        THEN [h[c] EXCEPT !.overwritten = TRUE]
        ELSE h[c]]

\* A client reads a file with its session token and keeps the hash.
ClientRead ==
    /\ \E c \in Clients, contentType \in {"about", "blog"} :
        LET req    == ContentReq(c, "GET", contentType,
                                 IF contentType = "blog" THEN <<"p">> ELSE << >>,
                                 Session, NULL, << >>, NULL)
            served == ContentHandler(req, store, now)
        IN  /\ request' = Received(req)
            /\ response' = served.response
            /\ store' = served.store
            /\ githubRequests' = served.githubRequests
            /\ held' = IF served.response.status = 200
                       THEN [held EXCEPT ![c] = Held(req, store[PathOf(req)])]
                       ELSE held
    /\ UNCHANGED <<codecVars, now, ADMIN_EMAILS, issued, sent>>

\* A client updates the file it has read, with the hash it has kept; it has to
\* read again before its next update.
ClientWrite ==
    /\ \E c \in Clients, data \in PutData :
        /\ held[c] # NULL
        /\ LET req    == ContentReq(c, "PUT", held[c].contentType, held[c].slug,
                                    Session, Some(data), BodyLine, held[c].sha)
               served == ContentHandler(req, store, now)
           IN  /\ request' = Received(req)
               /\ response' = served.response
               /\ store' = served.store
               /\ githubRequests' = served.githubRequests
               /\ held' = [Overwritten(held, req, served) EXCEPT ![c] = NULL]
    /\ UNCHANGED <<codecVars, now, ADMIN_EMAILS, issued, sent>>

\* The requests of anybody to the content API: any method, any route, with or
\* without a token, with or without data.
AnyRequests ==
    {ContentReq(0, method, route[1], route[2], k, data, << >>, sha) :
        method \in {"OPTIONS", "GET", "POST", "PUT", "DELETE"},
        route \in {<<Undefined, << >>>>, <<"about", << >>>>, <<"blog", <<"p">>>>,
                   <<"nope", << >>>>},
        k \in {NULL, NoToken, Session, ExpiredSession, Forged(Session),
               Prolonged(ExpiredSession)},
        data \in {NULL, Some(Titled), Some(NullInList)},
        sha \in {NULL} \cup {store[q].sha : q \in {r \in StorePaths : store[r] # NULL}}}

AnyRequest ==
    /\ \E req \in AnyRequests :
        LET served == ContentHandler(req, store, now)
        IN  /\ req.method \in {"OPTIONS", "GET", "DELETE"} => req.data = NULL /\ req.sha = NULL
            /\ req.sha # NULL => req.contentType \in {"about", "blog"}
            /\ req.sha # NULL => req.sha = store[PathOf(req)].sha
            /\ request' = Received(req)
            /\ response' = served.response
            /\ store' = served.store
            /\ githubRequests' = served.githubRequests
    /\ UNCHANGED <<codecVars, now, ADMIN_EMAILS, issued, sent, held>>

\* The site with its editors: the content API and the store, a week and a
\* second after the first session began.
InitStore ==
    /\ NoCodec
    /\ now = SevenDays + 1
    /\ ADMIN_EMAILS = <<<<"a">>>>
    /\ issued = {ExpiredSession, Session}
    /\ sent = {}
    /\ request = NULL
    /\ response = NULL
    /\ store = SiteFiles
    /\ githubRequests = << >>
    /\ held = [c \in Clients |-> NULL]

NextStore == ClientRead \/ ClientWrite

SpecStore == InitStore /\ [][NextStore]_vars

\* The content API open to anybody, with the same store and the same clock.
NextGate == AnyRequest

SpecGate == InitStore /\ [][NextGate]_vars

\* ------------------------------------------------- the supported subset

\* A zero-indentation `key: ...` line with a key, which is no list item.
IsTopKeyLine(line) ==
    /\ Len(line) > 0
    /\ line[1] \notin Whitespace \cup {"#", "-", ":"}
    /\ Includes(line, ":")

\* The key of such a line, and what follows its first ':'.
TopKey(line) == Trim(SliceTo(line, IndexOf(line, ":")))

TopValue(line) == Trim(SliceFrom(line, IndexOf(line, ":") + 1))

IsPendingKeyLine(line) == IsTopKeyLine(line) /\ TopValue(line) = << >>

IsBlockOpenLine(line) == IsTopKeyLine(line) /\ TopValue(line) = <<"|">>

IsScalarLine(line) ==
    /\ IsTopKeyLine(line)
    /\ TopValue(line) # << >>
    /\ ~EndsWith(TopValue(line), <<"|">>)

\* An indented `- ...` line, in its `- key: value` and its plain form.
IsItemLine(line) == SearchNonSpace(line) > 0 /\ StartsWith(Trim(line), <<"-", " ">>)

IsRecordItemLine(line) == IsItemLine(line) /\ Includes(Trim(line), ":")

IsPlainItemLine(line) == IsItemLine(line) /\ ~Includes(Trim(line), ":")

\* A `key: value` line indented by 4 columns or more.
IsFieldLine(line) ==
    /\ SearchNonSpace(line) >= 4
    /\ ~StartsWith(Trim(line), <<"-">>)
    /\ Includes(Trim(line), ":")
    /\ ~EndsWith(Trim(line), <<"|">>)

\* Lines n.. of ls are of the supported subset, read in the given mode: "top"
\* between keys, "list" after a pending key or a plain item, "record" after a
\* `- key: value` item or one of its fields, "block" inside a block scalar.
RECURSIVE InSubsetFrom(_, _, _)
InSubsetFrom(ls, n, mode) ==
    IF n > Len(ls) THEN TRUE
    ELSE LET line == ls[n]
         IN  IF mode = "block" /\ (Trim(line) = << >> \/ SearchNonSpace(line) > 0)
             THEN InSubsetFrom(ls, n + 1, "block")
             ELSE IF Trim(line) = << >> THEN InSubsetFrom(ls, n + 1, mode)
             ELSE IF line[1] = "#" THEN mode # "block" /\ InSubsetFrom(ls, n + 1, mode)
             ELSE IF IsScalarLine(line) THEN InSubsetFrom(ls, n + 1, "top")
             ELSE IF IsPendingKeyLine(line) THEN InSubsetFrom(ls, n + 1, "list")
             ELSE IF IsBlockOpenLine(line) THEN InSubsetFrom(ls, n + 1, "block")
             ELSE IF IsPlainItemLine(line)
                  THEN mode \in {"list", "record"} /\ InSubsetFrom(ls, n + 1, "list")
             ELSE IF IsRecordItemLine(line)
                  THEN mode \in {"list", "record"} /\ InSubsetFrom(ls, n + 1, "record")
             ELSE IF IsFieldLine(line)
                  THEN mode = "record" /\ InSubsetFrom(ls, n + 1, "record")
             ELSE FALSE

InSubset(ls) == InSubsetFrom(ls, 1, "top")

\* Every pending key line is directly followed by a list item and every block
\* opener by a line of text: no list and no block scalar is empty.
NothingEmpty(ls) ==
    \A n \in 1..Len(ls) :
        /\ IsPendingKeyLine(ls[n]) => (n < Len(ls) /\ IsItemLine(ls[n + 1]))
        /\ IsBlockOpenLine(ls[n])
            => (n < Len(ls) /\ Trim(ls[n + 1]) # << >> /\ SearchNonSpace(ls[n + 1]) > 0)

\* No two key lines of ls have the same key.
DistinctKeyLines(ls) ==
    \A p, q \in 1..Len(ls) :
        (p # q /\ IsTopKeyLine(ls[p]) /\ IsTopKeyLine(ls[q])) => TopKey(ls[p]) # TopKey(ls[q])

\* The keys of the key lines of ls, in source order.
RECURSIVE KeyLineKeys(_, _)
KeyLineKeys(ls, n) ==
    IF n > Len(ls) THEN << >>
    ELSE (IF IsTopKeyLine(ls[n]) THEN <<TopKey(ls[n])>> ELSE << >>)
            \o KeyLineKeys(ls, n + 1)

\* s can be obtained from t by dropping elements.
RECURSIVE IsSubsequence(_, _)
IsSubsequence(s, t) ==
    IF Len(s) = 0 THEN TRUE
    ELSE IF Len(t) = 0 THEN FALSE
    ELSE IF s[1] = t[1] THEN IsSubsequence(Tail(s), Tail(t))
    ELSE IsSubsequence(s, Tail(t))

\* ls is a pending key line followed by `- key: value` items, each optionally
\* followed by fields; and the records such a list is written to hold.
IsRecordListInput(ls) ==
    /\ Len(ls) >= 2
    /\ IsPendingKeyLine(ls[1])
    /\ IsRecordItemLine(ls[2])
    /\ \A n \in 3..Len(ls) : IsRecordItemLine(ls[n]) \/ IsFieldLine(ls[n])

RECURSIVE WrittenRecords(_, _, _)
WrittenRecords(ls, n, acc) ==
    IF n > Len(ls) THEN acc
    ELSE IF IsRecordItemLine(ls[n])
         THEN WrittenRecords(ls, n + 1,
                Append(acc, Rec(<<[k |-> FieldKey(ItemContent(ls[n])),
                                   v |-> FieldValue(ItemContent(ls[n]))]>>)))
         ELSE WrittenRecords(ls, n + 1,
                [acc EXCEPT ![Len(acc)] =
                    Rec(Put(@.f, FieldKey(Trim(ls[n])), FieldValue(Trim(ls[n]))))])

\* Every value of m is of the supported subset and no string is empty: null is
\* not of the subset, and the empty string is left to the claim about `key: ""`.
IsSupportedTree(m) ==
    \A n \in 1..Len(m) : m[n].v.t # "null" /\ m[n].v # Str(<< >>)

\* m is what parseYAML can return: entries with distinct keys, each value a
\* string or a list of records.
IsRootMapping(m) ==
    /\ \A n \in 1..Len(m) :
        /\ DOMAIN m[n] = {"k", "v"}
        /\ m[n].v.t \in {"str", "list"}
        /\ m[n].v.t = "list" => \A j \in 1..Len(m[n].v.l) : m[n].v.l[j].t = "rec"
    /\ \A p, q \in 1..Len(m) : p # q => m[p].k # m[q].k

\* The frontmatter pattern, by lines: the first line is the delimiter, then at
\* least one line of metadata, then a delimiter line that a line break follows.
MatchesByLines(ls) ==
    /\ Len(ls) >= 4
    /\ ls[1] = Delimiter
    /\ \E n \in 3..(Len(ls) - 1) : ls[n] = Delimiter

\* ------------------------------------------------------------------ claims

\* C1: for every mapping v that parseYAML returns on input of the supported
\* subset, parseYAML(toYAML(v)) equals v.
C1_RoundTripOfParsed ==
    (phase \in {"reparsed", "done"} /\ InSubset(lines) /\ NothingEmpty(lines))
        => out2 = out

\* C2: a list written as a pending key line followed by n `- key: value` items
\* (each optionally followed by fields) is read as n records in source order,
\* each holding only its own fields.
C2_EveryRecordItemStartsARecord ==
    (phase = "data" /\ IsRecordListInput(lines))
        => /\ HasKey(out, TopKey(lines[1]))
           /\ Get(out, TopKey(lines[1])) = List(WrittenRecords(lines, 2, << >>))

\* C3: a block scalar that is still open at end of input is assigned, trimmed,
\* to its key in the mapping returned.
C3_OpenBlockAssignedAtEnd ==
    (phase = "data" /\ inMultilineString)
        => /\ HasKey(out, multilineKey.v)
           /\ Get(out, multilineKey.v) = Str(Trim(multilineContent))

\* C6: the keys of the mapping parseYAML returns are in the order of their key
\* lines in the source, for any mix of scalar, list and block-scalar keys.
C6_KeysInSourceOrder ==
    (phase = "data" /\ InSubset(lines) /\ DistinctKeyLines(lines))
        => IsSubsequence(Keys(out), KeyLineKeys(lines, 1))

\* C4: for every mapping m built only from flat strings, lists of strings, lists
\* of single-level records, nested mappings and multiline strings,
\* parseYAML(toYAML(m)) equals m.
C4_RoundTripOfTree ==
    (phase \in {"reparsed", "done"} /\ IsSupportedTree(out)) => out2 = out

\* C5: for every mapping m of the supported subset,
\* toYAML(parseYAML(toYAML(m))) equals toYAML(m).
C5_SerializeIdempotent ==
    (phase = "done" /\ IsSupportedTree(out)) => yaml2 = yaml

\* C7: for every text that matches the frontmatter pattern, toMarkdown of what
\* parseFrontmatter returned matches the pattern again and splits into the
\* same body and the same metadata.
C7_FrontmatterRoundTrip ==
    (phase = "resplit" /\ FrontmatterMatches(text) /\ given = body)
        => /\ FrontmatterMatches(md)
           /\ body2 = body
           /\ out2 = out

\* C8: for every text that does not match the frontmatter pattern,
\* parseFrontmatter returns empty metadata and the text unchanged as body.
C8_FallbackKeepsText ==
    (phase = "split" /\ ~MatchesByLines(SplitLines(text)))
        => /\ out = << >>
           /\ body = text

C8_Witness ==
    /\ phase = "split"
    /\ ~MatchesByLines(SplitLines(text))
    /\ Len(text) > 0
    /\ text[1] = "\n"
    /\ Includes(text, "-")
    /\ body = text

\* Some branch of the loop body takes the line.
SomeBranchTakes(st, line) ==
    \/ IsSkipLine(line)
    \/ IsBlockLine(st, line)
    \/ IsBlockOpen(st, line)
    \/ IsListItem(st, line)
    \/ IsRecordField(st, line)
    \/ IsKeyLine(st, line)

\* C9: for every input, parseYAML terminates and returns a mapping, never
\* raising an error: no step dereferences null, what is accumulated and what
\* is returned is a mapping of strings and lists of records, and while the loop
\* runs the index is within the lines or one past them, a branch takes the line
\* at the index, and each step moves to the next line or returns.
C9_ParseReturnsAMapping ==
    /\ [](/\ ~threw
          /\ IsRootMapping(result)
          /\ phase = "data" => IsRootMapping(out)
          /\ phase = "parse" => i <= Len(lines) + 1
          /\ AtLine => SomeBranchTakes(Locals, lines[i]))
    /\ [][phase = "parse"
            => \/ (phase' = "parse" /\ i' = i + 1)
               \/ (phase' = "data" /\ i > Len(lines))]_vars

C9_Witness ==
    /\ phase = "data"
    /\ ~InSubset(lines)
    /\ Len(lines) = MaxLines
    /\ lines[1] = RecordItemLine
    /\ \E n \in 1..Len(lines) : lines[n] = FlowLine
    /\ \E n \in 1..Len(lines) : lines[n] = FieldLine
    /\ Len(out) > 0

\* C10: toMarkdown returns the line `---`, then toYAML(metadata), then the line
\* `---`, then one blank line, then the body verbatim.
C10_MarkdownLayout ==
    phase = "composed"
        => LET y == ToYAML(out, 0)
           IN  /\ Len(md) = 4 + Len(y) + 5 + Len(given)
               /\ SubSeq(md, 1, 4) = <<"-", "-", "-", "\n">>
               /\ SubSeq(md, 5, 4 + Len(y)) = y
               /\ SubSeq(md, 5 + Len(y), 9 + Len(y)) = <<"-", "-", "-", "\n", "\n">>
               /\ SubSeq(md, 10 + Len(y), Len(md)) = given

C10_Witness ==
    /\ phase = "composed"
    /\ Len(out) > 0
    /\ given = <<"\n", "h", "i", "\n">>
    /\ EndsWith(md, <<"-", "-", "-", "\n", "\n", "\n", "h", "i", "\n">>)

\* The value written after `k: ` on the one line of the input.
WrittenValue == SliceFrom(text, 3)

\* A quote character stands at both ends of the value.
IsQuoted(s) == Len(s) >= 2 /\ s[1] \in Quotes /\ s[Len(s)] \in Quotes

\* A value as it is written bare: it has a letter, no whitespace around it, it
\* is not enclosed in quotes and does not end with the block-scalar marker.
IsBareValue(s) ==
    /\ Includes(s, "a")
    /\ Trim(s) = s
    /\ ~IsQuoted(s)
    /\ ~EndsWith(s, <<"|">>)

\* C11: for every value s without surrounding quotes, parseYAML stores the same
\* value for the line `key: "s"` as for the line `key: s`, and likewise for
\* `key: 's'`.
C11_QuotedReadsAsBare ==
    (phase = "data" /\ IsBareValue(WrittenValue))
        => \A q \in Quotes :
            ParseYAML(ScalarLineOf(<<q>> \o WrittenValue \o <<q>>)) = out

\* C13: a value with a quote character at both ends is stored without one
\* character at each end, and a value with a quote character at one end only or
\* at neither end is stored unchanged.
C13_StripsOnlyPairs ==
    (/\ phase = "data"
     /\ Includes(WrittenValue, "a")
     /\ Trim(WrittenValue) = WrittenValue
     /\ ~EndsWith(WrittenValue, <<"|">>))
        => /\ HasKey(out, <<"k">>)
           /\ Get(out, <<"k">>) =
                Str(IF IsQuoted(WrittenValue)
                    THEN SubSeq(WrittenValue, 2, Len(WrittenValue) - 1)
                    ELSE WrittenValue)

\* C14: for a `key: value` line the key becomes the pending key only when the
\* trimmed text after the first ':' is empty; when that text is not empty, a
\* pair of quote characters included, the quote-stripped value is stored under
\* the key (checked for every value but a single quote character).
C14_PendingOnlyWhenEmpty ==
    (/\ phase = "data"
     /\ ~EndsWith(Trim(WrittenValue), <<"|">>)
     /\ Trim(WrittenValue) \notin {<<q>> : q \in Quotes})
        => IF Trim(WrittenValue) = << >>
           THEN currentKey = Some(<<"k">>) /\ out = << >>
           ELSE /\ currentKey = NULL
                /\ out = <<[k |-> <<"k">>, v |-> Str(StripQuotes(Trim(WrittenValue)))]>>

\* C12: parseYAML of the empty string returns the empty mapping, and toYAML of
\* the empty mapping returns the empty string.
C12_EmptyIsEmpty ==
    /\ (phase = "data" /\ text = << >>) => out = << >>
    /\ (phase = "serialized" /\ out = << >>) => yaml = << >>

C12_Witness ==
    /\ phase = "serialized"
    /\ text = << >>
    /\ lines = << << >> >>
    /\ out = << >>
    /\ yaml = << >>

\* The trimmed line is appended to the accumulated value of the block scalar,
\* after a line break or directly.
AppendsTrimmed(line) ==
    \E sep \in {<< >>, <<"\n">>} :
        multilineContent' = multilineContent \o sep \o Trim(line)

\* The line at the index is read while a block scalar is open and is indented
\* more than the `key: |` line.
AtBlockText ==
    /\ AtLine
    /\ inMultilineString
    /\ Trim(lines[i]) # << >>
    /\ SearchNonSpace(lines[i]) > indentLevel

\* The line at the index is blank and is read while a block scalar is open.
AtBlockBlank == AtLine /\ inMultilineString /\ Trim(lines[i]) = << >>

\* C15 as stated: while a block scalar is open, every non-blank line indented
\* more than the `key: |` line is trimmed and appended to the accumulated value
\* whatever its content, text that looks like a comment included, and every
\* blank line adds one newline.
C15_BlockTakesEveryLine ==
    [][/\ AtBlockText => AppendsTrimmed(lines[i])
       /\ AtBlockBlank => multilineContent' = multilineContent \o <<"\n">>]_vars

\* C15: while a block scalar is open, every non-blank line indented more than the
\* `key: |` line whose trimmed text does not start with '#' is trimmed and
\* appended to the accumulated value whatever its content; a line whose trimmed
\* text starts with '#' is skipped and leaves the value as it was; every blank
\* line adds one newline; and the block stays open.
C15_BlockTakesEveryLineButComments ==
    [][/\ (AtBlockText /\ Trim(lines[i])[1] # "#") => AppendsTrimmed(lines[i])
       /\ (AtBlockText /\ Trim(lines[i])[1] = "#") => multilineContent' = multilineContent
       /\ AtBlockBlank => multilineContent' = multilineContent \o <<"\n">>
       /\ (AtBlockText \/ AtBlockBlank) => inMultilineString' /\ result' = result]_vars

C15_Witness ==
    /\ phase = "parse"
    /\ inMultilineString
    /\ i = 5
    /\ lines[2] = PlainItemLine
    /\ lines[3] = IndentedCommentLine
    /\ lines[4] = FieldLine
    /\ multilineContent = <<"-", " ", "x", "\n", "m", ":", " ", "w">>

\* The line at the index has no indentation, contains ':' and is neither a list
\* item nor a comment, and it is read while a list is open under a pending key.
AtListClosingLine ==
    /\ AtLine
    /\ currentList # NULL
    /\ currentKey # NULL
    /\ SearchNonSpace(lines[i]) = 0
    /\ Includes(Trim(lines[i]), ":")
    /\ ~StartsWith(Trim(lines[i]), <<"-", " ">>)
    /\ Trim(lines[i])[1] # "#"

\* The open list with its open record appended, if that record has a field.
OpenListFlushed ==
    IF currentListItem # NULL /\ Len(currentListItem.v) > 0
    THEN Append(currentList.v, Rec(currentListItem.v))
    ELSE currentList.v

\* C16: whenever a list is open and parseYAML reads a zero-indentation line that
\* contains ':' and is not a list item (a scalar key line, a pending-key line or
\* a block-scalar opener), the list is closed at that line: its open record, if
\* it has a field, is appended and the list is stored under its key.
C16_ListClosedAtKeyLine ==
    [][AtListClosingLine
        => /\ currentList' = NULL
           /\ HasKey(result', currentKey.v)
           /\ Get(result', currentKey.v) = List(OpenListFlushed)]_vars

\* The first line is the delimiter and some later line is the delimiter.
HasDelimiterLines(ls) ==
    /\ Len(ls) >= 2
    /\ ls[1] = Delimiter
    /\ \E n \in 2..Len(ls) : ls[n] = Delimiter

\* The first delimiter line after the first line.
ClosingLine(ls) ==
    CHOOSE n \in 2..Len(ls) :
        /\ ls[n] = Delimiter
        /\ \A m \in 2..(n - 1) : ls[m] # Delimiter

\* C17: whenever the first line of a text is exactly `---` and some later line is
\* exactly `---`, with or without lines between them and after them,
\* parseFrontmatter returns as metadata parseYAML of the text strictly between
\* the two lines and as body everything after the first such closing line,
\* trimmed.
C17_MatchesOnDelimiterLines ==
    (phase = "split" /\ HasDelimiterLines(SplitLines(text)))
        => LET ls == SplitLines(text)
               n  == ClosingLine(ls)
           IN  /\ out = ParseYAML(JoinLines(SubSeq(ls, 2, n - 1)))
               /\ body = Trim(JoinLines(SubSeq(ls, n + 1, Len(ls))))

\* C18: toYAML has no failure mode: for every tree whose values are null, lists,
\* mappings or strings, null list elements included, toYAML returns a string
\* and raises no error.
C18_ToYAMLNeverThrows == phase # "error"

\* The line at the index is indented by at least 4 columns, its trimmed text
\* contains ':', and it is read while a list record is open.
AtRecordFieldLine ==
    /\ AtLine
    /\ currentListItem # NULL
    /\ SearchNonSpace(lines[i]) >= 4
    /\ Includes(Trim(lines[i]), ":")

\* The step adds the pair of the line at the index to the open record and
\* leaves the list, the mapping and the pending key as they were.
AddsFieldOnly ==
    /\ currentListItem' =
        Some(Put(currentListItem.v, FieldKey(Trim(lines[i])), FieldValue(Trim(lines[i]))))
    /\ currentList' = currentList
    /\ result' = result
    /\ currentKey' = currentKey

\* C19 as stated: a line indented by at least 4 columns whose trimmed text
\* contains ':' and that is read while a list record is open adds its pair to
\* that record and changes nothing else: no list element is created and no
\* top-level key is stored.
C19_FieldLineAddsFieldOnly == [][AtRecordFieldLine => AddsFieldOnly]_vars

\* C19: such a line adds its pair to the open record and changes nothing else
\* when no block scalar is open and its trimmed text neither starts with '#'
\* or '- ' nor ends with '|'; a line starting with '#' is skipped, and a line
\* ending with '|' opens a block scalar and leaves the record as it was.
C19_FieldLineAfterEarlierBranches ==
    [][AtRecordFieldLine
        => LET trimmed == Trim(lines[i])
           IN  /\ (/\ ~inMultilineString
                   /\ trimmed[1] # "#"
                   /\ ~StartsWith(trimmed, <<"-", " ">>)
                   /\ ~EndsWith(trimmed, <<"|">>)) => AddsFieldOnly
               /\ trimmed[1] = "#" => UNCHANGED <<currentListItem, currentList, result>>
               /\ (trimmed[1] # "#" /\ EndsWith(trimmed, <<"|">>))
                    => inMultilineString' /\ UNCHANGED <<currentListItem, currentList>>]_vars

C19_Witness ==
    /\ phase = "parse"
    /\ i = 4
    /\ lines[3] = FieldLine
    /\ currentList = Some(<< >>)
    /\ currentListItem = Some(<<[k |-> <<"k">>, v |-> <<"v">>], [k |-> <<"m">>, v |-> <<"w">>]>>)
    /\ result = << >>

\* C20: at end of input, a list that is still open is stored in the mapping
\* returned under the last pending key, with its still-open record, if that
\* record has at least one field, appended as the last element.
C20_OpenListStoredAtEnd ==
    [][(phase = "parse" /\ phase' = "data" /\ currentList # NULL /\ currentKey # NULL)
        => /\ HasKey(out', currentKey.v)
           /\ Get(out', currentKey.v) = List(OpenListFlushed)
           /\ (currentListItem # NULL /\ Len(currentListItem.v) > 0)
                => LET stored == Get(out', currentKey.v).l
                   IN  /\ Len(stored) = Len(currentList.v) + 1
                       /\ stored[Len(stored)] = Rec(currentListItem.v)]_vars

C20_Witness ==
    /\ phase = "data"
    /\ lines = <<PendingKeyLine, PlainItemLine, RecordItemLine, FieldLine>>
    /\ currentKey = Some(<<"a">>)
    /\ out = <<[k |-> <<"a">>,
                v |-> List(<<Rec(<<[k |-> <<"t", "e", "x", "t">>, v |-> <<"x">>]>>),
                             RecordKVMW>>)]>>

\* The records with at least one field that are elements of the lists of m, each
\* with the indent level of its list: m is written at the given level and a
\* nested mapping one level deeper.
RECURSIVE RecordsAt(_, _)
RecordsAt(m, indent) ==
    UNION { IF m[n].v.t = "list"
            THEN {<<indent, m[n].v.l[j].f>> :
                    j \in {h \in 1..Len(m[n].v.l) :
                            m[n].v.l[h].t = "rec" /\ Len(m[n].v.l[h].f) > 0}}
            ELSE IF m[n].v.t = "map" THEN RecordsAt(m[n].v.m, indent + 1)
            ELSE {} : n \in 1..Len(m) }

\* `field: "value"`
FieldText(entry) == entry.k \o <<":", " ", "\"">> \o entry.v \o <<"\"">>

\* The lines ls hold, from line p on, the record f written at the indent level:
\* the first field after `- ` and every later field on a line of its own,
\* `deeper` columns deeper than the `-` and at column 4 or beyond.
RecordWrittenAt(ls, p, indent, f, deeper) ==
    /\ p + Len(f) - 1 <= Len(ls)
    /\ ls[p] = Spaces(indent) \o <<" ", " ", "-", " ">> \o FieldText(f[1])
    /\ \A j \in 2..Len(f) :
        /\ Trim(ls[p + j - 1]) = FieldText(f[j])
        /\ SearchNonSpace(ls[p + j - 1]) = IndexOf(ls[p], "-") + deeper
        /\ SearchNonSpace(ls[p + j - 1]) >= 4

\* C21 as stated: for a list element that is a record with at least one field,
\* toYAML emits the first field on a `- field: "value"` line and every later
\* field on its own continuation line indented 4 spaces deeper than the `-`, at
\* column 4 or beyond at every indent level.
C21_FieldsFourDeeperThanDash ==
    phase = "serialized"
        => \A r \in RecordsAt(out, 0) :
            \E p \in 1..Len(SplitLines(yaml)) :
                RecordWrittenAt(SplitLines(yaml), p, r[1], r[2], 4)

\* C21: for a list element that is a record with at least one field, toYAML
\* emits the first field on a `- field: "value"` line and every later field on
\* its own continuation line indented 2 spaces deeper than the `-`, which is 4
\* spaces deeper than the key line of the list and under the name of the first
\* field; at every indent level these lines start at column 4 or beyond.
C21_FieldsUnderFirstField ==
    phase = "serialized"
        => \A r \in RecordsAt(out, 0) :
            \E p \in 1..Len(SplitLines(yaml)) :
                RecordWrittenAt(SplitLines(yaml), p, r[1], r[2], 2)

C21_Witness ==
    /\ phase = "serialized"
    /\ <<1, RecordKVMW.f>> \in RecordsAt(out, 0)
    /\ <<0, RecordKVMW.f>> \in RecordsAt(out, 0)
    /\ \E p \in 1..Len(SplitLines(yaml)) :
        SplitLines(yaml)[p] = <<" ", " ", " ", " ", " ", " ", "m", ":", " ", "\"", "w", "\"">>

\* The index of the first zero-indentation key line of ls after line p, one past
\* the last line if there is none.
NextKeyLine(ls, p) ==
    IF \E q \in (p + 1)..Len(ls) : IsTopKeyLine(ls[q])
    THEN CHOOSE q \in (p + 1)..Len(ls) :
            /\ IsTopKeyLine(ls[q])
            /\ \A r \in (p + 1)..(q - 1) : ~IsTopKeyLine(ls[r])
    ELSE Len(ls) + 1

\* The list read from the `key:` line p of ls and the lines after it, up to the
\* next zero-indentation key line.
ListOfKeyLine(ls, p) ==
    ParseYAML(JoinLines(SubSeq(ls, p, NextKeyLine(ls, p) - 1)))

\* C29: in every mapping returned by parseYAML, each list holds only the items
\* whose lines lie after a `key:` line of its key and before the next
\* zero-indentation key line: what is read after a list was closed neither
\* enters nor replaces a list stored under an earlier key.
C29_ListsHoldOnlyTheirLines ==
    phase = "data"
        => \A n \in 1..Len(out) :
            out[n].v.t = "list"
                => \E p \in 1..Len(lines) :
                    /\ IsPendingKeyLine(lines[p])
                    /\ TopKey(lines[p]) = out[n].k
                    /\ ListOfKeyLine(lines, p) = <<out[n]>>

\* Every character of s is a string, as in a JavaScript string.
IsString(s) == s \in Seq(STRING)

\* C30: in every mapping returned by parseYAML, each value is a string or a
\* non-empty list whose elements are all records with at least one field and
\* string-valued fields: no nested mapping, no empty list, no empty record and
\* no bare string inside a list.
C30_StringsOrListsOfRecords ==
    phase = "data"
        => \A n \in 1..Len(out) :
            \/ out[n].v.t = "str" /\ IsString(out[n].v.s)
            \/ /\ out[n].v.t = "list"
               /\ Len(out[n].v.l) >= 1
               /\ \A j \in 1..Len(out[n].v.l) :
                    /\ out[n].v.l[j].t = "rec"
                    /\ Len(out[n].v.l[j].f) >= 1
                    /\ \A h \in 1..Len(out[n].v.l[j].f) :
                        /\ DOMAIN out[n].v.l[j].f[h] = {"k", "v"}
                        /\ IsString(out[n].v.l[j].f[h].v)

C30_Witness ==
    /\ phase = "data"
    /\ lines = <<PendingKeyLine, PlainItemLine, RecordItemLine, ScalarLine>>
    /\ Len(out) = 2
    /\ out[1].v.t = "list"
    /\ Len(out[1].v.l) = 2
    /\ out[2].v = Str(<<"y">>)

\* The last request was sent to the given route of the auth API.
IsAuthCall(method, route) ==
    IF request = NULL THEN FALSE
    ELSE IF request.api # "auth" THEN FALSE
    ELSE request.method = method /\ request.route = route

\* The last request was sent to the content API.
IsContentCall ==
    IF request = NULL THEN FALSE ELSE request.api = "content"

\* The address is one of the admin list, compared without case.
IsAdmin(email) == Includes(ADMIN_EMAILS, ToLowerCase(email))

\* C24: POST /request creates a magic-link token and sends a mail only for an
\* address that is in the admin list, compared without case: no token and no
\* mail exists for any other address.
C24_OnlyAdminsGetALink ==
    /\ \A k \in issued : k.payload.purpose = "magic-link" => IsAdmin(k.payload.email)
    /\ \A m \in sent : IsAdmin(m.to)

\* The token is one createJWT made, with the purpose or the role given.
IsMagicLink(k) ==
    IF k \notin issued THEN FALSE ELSE k.payload.purpose = "magic-link"

IsSession(k) ==
    IF k \notin issued THEN FALSE ELSE k.payload.role = "admin"

\* The token is signed with the key of the server and has not expired at t.
SignedAndUnexpired(k, t) ==
    IF k = NULL THEN FALSE
    ELSE IF k.signature # Hmac(JWT_SECRET, k.payload) THEN FALSE
    ELSE k.payload.exp >= t

\* C26: POST /verify answers with a session token only to a token that is
\* signed by the server, unexpired and of purpose 'magic-link'; to a session
\* token it answers 401.
C26_VerifyTakesOnlyMagicLinks ==
    IsAuthCall("POST", "verify") =>
        /\ response.status = 200 =>
            /\ SignedAndUnexpired(request.token, request.at)
            /\ request.token.payload.purpose = "magic-link"
            /\ response.body.token \in issued
        /\ IsSession(request.token) => response.status = 401

C26_Witness ==
    /\ IsAuthCall("POST", "verify")
    /\ IsSession(request.token)
    /\ SignedAndUnexpired(request.token, request.at)
    /\ response.status = 401

\* C27: the response of POST /request to a non-empty address is the response
\* it gives, at the same time and with the same mail service, to any address
\* of the other kind (in the admin list, not in it): status and body are equal.
C27_SameAnswerForAnyAddress ==
    IsAuthCall("POST", "request") /\ request.email # << >> /\ ADMIN_EMAILS # << >> =>
        \A other \in Emails :
            IsAdmin(other) # IsAdmin(request.email) =>
                PostRequest(other, ADMIN_EMAILS, request.sendOk, request.at).response
                    = response

\* The token the last request carried, NULL when it carried none.
Carried ==
    IF request = NULL THEN NULL
    ELSE IF request.api = "content" THEN request.authorization
    ELSE IF request.route = "verify" THEN request.token
    ELSE request.authorization

\* The seconds a token is meant to live.
Lifetime(k) == IF k.payload.purpose = "magic-link" THEN OneHour ELSE SevenDays

\* The route takes the token: /verify a magic link, /me and the content API a
\* session token.
RouteTakes(k) ==
    IF request.api = "auth" /\ request.route = "verify" THEN IsMagicLink(k) ELSE IsSession(k)

\* C25: a token createJWT made at time t is accepted while the clock is at most
\* t + 3600 (a magic link) or t + 604800 (a session token), and rejected with
\* 401 at any later time, by every handler.
C25_TokensLiveTheirLifetime ==
    Carried \in issued =>
        /\ request.at > Carried.payload.iat + Lifetime(Carried) => response.status = 401
        /\ request.at <= Carried.payload.iat + Lifetime(Carried) /\ RouteTakes(Carried) =>
                response.status = 200

C25_Witness ==
    /\ IsSession(Carried)
    /\ request.at = Carried.payload.iat + SevenDays + 1
    /\ response.status = 401

\* C28: the content API does not take a magic-link token for a credential: a
\* request that carries one is answered 401, and only a session token of role
\* 'admin' is served.  The admin list is not empty, so that every magic link
\* was made for an admin.
C28_ContentTakesOnlySessions ==
    IsContentCall /\ request.method # "OPTIONS" /\ ADMIN_EMAILS # << >> =>
        /\ IsMagicLink(request.authorization) => response.status = 401
        /\ response.status # 401 => IsSession(request.authorization)

\* C23: a request to the content API that is not a preflight and whose token is
\* not signed by the server or has expired is answered 401, and no request is
\* sent to the store, which stays as it was.
C23_NoStoreWithoutToken ==
    [][request'.method # "OPTIONS" /\ ~SignedAndUnexpired(request'.authorization, now) =>
            /\ response'.status = 401
            /\ githubRequests' = << >>
            /\ store' = store]_vars

C23_Witness ==
    /\ IsContentCall
    /\ request.method = "PUT"
    /\ request.contentType = "about"
    /\ request.data # NULL
    /\ request.sha = store[ContentPath("about")].sha
    /\ request.authorization = Prolonged(ExpiredSession)
    /\ response.status = 401

\* The content a PUT writes: toYAML(data) for a content file, toMarkdown(data,
\* content) for a post.
Written(req) ==
    IF req.contentType = "blog" THEN ToMarkdown(req.data.v, req.content)
    ELSE ToYAML(req.data.v, 0)

\* The hash of the request goes to the store as it came, in at most one update.
PassesSha(req, requests) ==
    \/ requests = << >>
    \/ requests = <<GithubPut(PathOf(req), Written(req), req.sha)>>

\* C22: a PUT sends the hash of the caller to the store unchanged, once; of the
\* clients that read the same version of a file and PUT with its hash at most
\* one is accepted: a PUT that comes after an accepted PUT made since its read
\* gets an error and the store stays as it was.
C22_AtMostOneAccepted ==
    [][request'.method = "PUT" =>
            /\ PassesSha(request', githubRequests')
            /\ held[request'.client].overwritten =>
                    response'.status = 500 /\ store' = store]_vars

\* C22 (amended): a PUT sends the hash of the caller to the store unchanged,
\* once; a PUT is accepted only while the stored content is the content its
\* client read: once the content differs the PUT gets an error and the store
\* stays as it was.
C22_AcceptedWhileContentIsTheOneRead ==
    [][request'.method = "PUT" =>
            /\ PassesSha(request', githubRequests')
            /\ store[PathOf(request')].content # held[request'.client].content =>
                    response'.status = 500 /\ store' = store
            /\ response'.status = 200 =>
                    store[PathOf(request')].content = held[request'.client].content]_vars

C22_Witness ==
    /\ IsContentCall
    /\ request.method = "PUT"
    /\ request.contentType = "blog"
    /\ githubRequests # << >>
    /\ request.sha # store[PathOf(request)].sha
    /\ response.status = 500

====
